---- MODULE Spec2Model ----
(***************************************************************************)
(* Model of src/script.js: the SlideDeck controller (navigation, the       *)
(* deferred commit scheduled with setTimeout, the UI projections) and the  *)
(* event listeners that drive it, and the SlideAnalytics view-time         *)
(* tracker.                                                                *)
(*                                                                         *)
(* Abstractions:                                                           *)
(*  - the progress width (currentSlide / totalSlides) * 100 is kept as an  *)
(*    exact fraction in lowest terms, [num, den]; den = 0 is JavaScript's  *)
(*    Infinity (division of a positive number by zero);                    *)
(*  - timers created by setTimeout(..., 50) all have the same delay, so    *)
(*    the event loop runs them in creation order: a FIFO sequence;         *)
(*  - touchEndX (a closure variable of attachEventListeners) is assigned   *)
(*    by the touchend listener and read only by the call that follows in   *)
(*    the same listener; it is the input x of TouchEnd;                    *)
(*  - the handle setTimeout returns is discarded by the code; the model    *)
(*    keeps one per timer, recycled modulo MaxPending, only to tell        *)
(*    pending timers apart;                                                *)
(*  - Date.now() reads a clock that never goes back; it advances in Tick.  *)
(***************************************************************************)
EXTENDS Integers, Sequences, FiniteSets, TLC

\* ---- bounds of the model ----
MaxSlides == 3
MaxPending == 2
MaxClock == 3
MaxWiredSlides == 2
MaxWiredClock == 1
MaxLiveSlides == 2

\* ---- program constants ----
swipeThreshold == 50

\* ---- input domains ----
SlideCounts == 0..MaxSlides
SlideNumbers == (0 - 1)..(MaxSlides + 1)
ScreenXs == {0, 50, 51}
Keys == {"ArrowRight", "PageDown", " ", "ArrowLeft", "PageUp", "Home", "End", "?", "a"}
TrackedSlides == {1, 2}

VARIABLES
    totalSlides,    \* this.totalSlides
    currentSlide,   \* this.currentSlide
    slides,         \* this.slides: slide index -> its classList
    slideCounter,   \* this.slideCounter.textContent
    progressBar,    \* this.progressBar.style.width, as a fraction of percent
    prevBtn,        \* this.prevBtn: [disabled, opacity]
    nextBtn,        \* this.nextBtn: [disabled, opacity]
    docTitle,       \* document.title: the slide whose title it shows, 0 = the page's own
    timers,         \* pending setTimeout callbacks of goToSlide, in firing order
    timerSeq,       \* handle of the next timer
    touchStartX,    \* closure variable of attachEventListeners
    thrown,         \* an uncaught exception has been raised
    lastOp,         \* the last handler that ran, with its inputs
    clock,          \* the time Date.now() returns
    startTime,      \* analytics.startTime
    currentSlideStartTime,  \* analytics.currentSlideStartTime
    slideViewTimes, \* analytics.slideViewTimes: the keys set so far -> milliseconds
    firstSlideStartTime     \* currentSlideStartTime as the constructor set it

deckVars == <<currentSlide, slides, slideCounter, progressBar, prevBtn, nextBtn,
              docTitle, timers, timerSeq, thrown>>
uiVars == <<slideCounter, progressBar, prevBtn, nextBtn, docTitle>>
trackerVars == <<startTime, currentSlideStartTime, slideViewTimes, firstSlideStartTime>>
vars == <<totalSlides, currentSlide, slides, slideCounter, progressBar,
          prevBtn, nextBtn, docTitle, timers, timerSeq, touchStartX, thrown, lastOp,
          clock, startTime, currentSlideStartTime, slideViewTimes, firstSlideStartTime>>

\* ---- helpers ----
RECURSIVE GCD(_, _)
GCD(a, b) == IF b = 0 THEN a ELSE GCD(b, a % b)

Abs(x) == IF x < 0 THEN 0 - x ELSE x

Op(name, key, a, b) == [op |-> name, key |-> key, a |-> a, b |-> b]

\* classList of slide i in the page as loaded
InitialClasses(i) == IF i = 1 THEN {"active"} ELSE {}

\* the slides that contain a .slide-title/.main-title element: the odd ones,
\* so that a deck has slides with and without a title
HasTitle(i) == i % 2 = 1

\* ---- UI projections ----
\* variant: the counter with its two numbers swapped
CounterText_swapped(k, N) == ToString(N) \o " / " \o ToString(k)

\* `${this.currentSlide} / ${this.totalSlides}`
CounterText(k, N) == ToString(k) \o " / " \o ToString(N)

\* (this.currentSlide / this.totalSlides) * 100
ProgressPercentage(k, N) ==
    LET g == GCD(k * 100, N)
    IN  [num |-> (k * 100) \div g, den |-> N \div g]

PrevButtonState(k) ==
    IF k = 1 THEN [disabled |-> TRUE, opacity |-> "0.3"]
             ELSE [disabled |-> FALSE, opacity |-> "1"]

NextButtonState(k, N) ==
    IF k = N THEN [disabled |-> TRUE, opacity |-> "0.3"]
             ELSE [disabled |-> FALSE, opacity |-> "1"]

\* document.title after updateUI: set only when the slide has a title element
TitleAfter(k, old) == IF HasTitle(k) THEN k ELSE old

\* updateUI throws a TypeError when this.slides[currentSlide - 1] is undefined
UpdateUIThrows(k, N) == ~(k \in 1..N)

updateButtonStates(k) ==
    /\ prevBtn' = PrevButtonState(k)
    /\ nextBtn' = NextButtonState(k, totalSlides)

updateUI(k) ==
    /\ slideCounter' = CounterText(k, totalSlides)
    /\ progressBar' = ProgressPercentage(k, totalSlides)
    /\ updateButtonStates(k)
    /\ docTitle' = TitleAfter(k, docTitle)
    /\ thrown' = (thrown \/ UpdateUIThrows(k, totalSlides))

\* ---- construction ----
DeckInit ==
    /\ totalSlides \in SlideCounts
    /\ currentSlide = 1
    /\ slides = [i \in 1..totalSlides |-> InitialClasses(i)]
    /\ slideCounter = CounterText(1, totalSlides)
    /\ progressBar = ProgressPercentage(1, totalSlides)
    /\ prevBtn = PrevButtonState(1)
    /\ nextBtn = NextButtonState(1, totalSlides)
    /\ docTitle = TitleAfter(1, 0)
    /\ thrown = UpdateUIThrows(1, totalSlides)
    /\ timers = << >>
    /\ timerSeq = 1
    /\ touchStartX = 0
    /\ lastOp = Op("constructor", "", 0, 0)

\* new SlideAnalytics(): two reads of Date.now(), the second d later
AnalyticsInit(d) ==
    /\ slideViewTimes = << >>
    /\ startTime = 0
    /\ currentSlideStartTime = startTime + d
    /\ firstSlideStartTime = currentSlideStartTime
    /\ clock = currentSlideStartTime

\* the page as the deck's users see it: the tracker is built and never called
Init == DeckInit /\ AnalyticsInit(0)

\* the page with an external caller of the tracker and nobody using the deck
TrackerInit == DeckInit /\ \E d \in 0..1 : AnalyticsInit(d)

\* the page loaded with at most MaxLiveSlides slides
LiveInit ==
    /\ DeckInit
    /\ totalSlides <= MaxLiveSlides
    /\ AnalyticsInit(0)

\* the page with an external caller of the tracker and users of the deck
WiredInit ==
    /\ DeckInit
    /\ totalSlides <= MaxWiredSlides
    /\ AnalyticsInit(0)

\* ---- the view-time tracker ----
\* this.slideViewTimes[k], undefined read as 0 by `!` and `+=`
ViewTime(k) == IF k \in DOMAIN slideViewTimes THEN slideViewTimes[k] ELSE 0

\* variant: the duration is stored, not added (= for +=)
trackSlideChange_overwrite(slideNumber) ==
    LET now == clock
        duration == now - currentSlideStartTime
    IN  /\ slideViewTimes' = [k \in DOMAIN slideViewTimes \cup {slideNumber} |->
                                IF k = slideNumber THEN duration
                                                   ELSE slideViewTimes[k]]
        /\ currentSlideStartTime' = now
        /\ UNCHANGED <<startTime, firstSlideStartTime>>

\* variant: the last-transition timestamp is not reset
trackSlideChange_noReset(slideNumber) ==
    LET now == clock
        duration == now - currentSlideStartTime
        zeroed == IF ViewTime(slideNumber) = 0 THEN 0 ELSE slideViewTimes[slideNumber]
    IN  /\ slideViewTimes' = [k \in DOMAIN slideViewTimes \cup {slideNumber} |->
                                IF k = slideNumber THEN zeroed + duration
                                                   ELSE slideViewTimes[k]]
        /\ UNCHANGED <<startTime, currentSlideStartTime, firstSlideStartTime>>

trackSlideChange(slideNumber) ==
    LET now == clock
        duration == now - currentSlideStartTime
        zeroed == IF ViewTime(slideNumber) = 0 THEN 0 ELSE slideViewTimes[slideNumber]
    IN  /\ slideViewTimes' = [k \in DOMAIN slideViewTimes \cup {slideNumber} |->
                                IF k = slideNumber THEN zeroed + duration
                                                   ELSE slideViewTimes[k]]
        /\ currentSlideStartTime' = now
        /\ UNCHANGED <<startTime, firstSlideStartTime>>

\* the totalTime of the object getReport returns; slideViewTimes is returned as it is
getReport == clock - startTime

\* variant: the lower bound of the guard is off by one, goToSlide(0) is accepted
goToSlide_offByOne(slideNumber) ==
    IF slideNumber < 0 \/ slideNumber > totalSlides
    THEN UNCHANGED deckVars
    ELSE /\ Len(timers) < MaxPending
         /\ slides' = [slides EXCEPT ![currentSlide] =
                          IF slideNumber > currentSlide
                          THEN (@ \ {"active"}) \cup {"exit-left"}
                          ELSE @ \ {"active"}]
         /\ timers' = Append(timers, [id |-> timerSeq, slideNumber |-> slideNumber])
         /\ timerSeq' = (timerSeq % MaxPending) + 1
         /\ UNCHANGED <<currentSlide, uiVars, thrown>>

\* variant: a new navigation cancels the pending timers (clearTimeout) first
goToSlide_cancelling(slideNumber) ==
    IF slideNumber < 1 \/ slideNumber > totalSlides
    THEN UNCHANGED deckVars
    ELSE /\ Len(timers) < MaxPending
         /\ slides' = [slides EXCEPT ![currentSlide] =
                          IF slideNumber > currentSlide
                          THEN (@ \ {"active"}) \cup {"exit-left"}
                          ELSE @ \ {"active"}]
         /\ timers' = <<[id |-> timerSeq, slideNumber |-> slideNumber]>>
         /\ timerSeq' = (timerSeq % MaxPending) + 1
         /\ UNCHANGED <<currentSlide, uiVars, thrown>>

\* variant: the direction test is >=, so staying on a slide counts as forward
goToSlide_sameIsNext(slideNumber) ==
    IF slideNumber < 1 \/ slideNumber > totalSlides
    THEN UNCHANGED deckVars
    ELSE /\ Len(timers) < MaxPending
         /\ slides' = [slides EXCEPT ![currentSlide] =
                          IF slideNumber >= currentSlide
                          THEN (@ \ {"active"}) \cup {"exit-left"}
                          ELSE @ \ {"active"}]
         /\ timers' = Append(timers, [id |-> timerSeq, slideNumber |-> slideNumber])
         /\ timerSeq' = (timerSeq % MaxPending) + 1
         /\ UNCHANGED <<currentSlide, uiVars, thrown>>

\* variant: this.currentSlide is assigned at once, before the timer fires
goToSlide_eager(slideNumber) ==
    IF slideNumber < 1 \/ slideNumber > totalSlides
    THEN UNCHANGED deckVars
    ELSE /\ Len(timers) < MaxPending
         /\ slides' = [slides EXCEPT ![currentSlide] =
                          IF slideNumber > currentSlide
                          THEN (@ \ {"active"}) \cup {"exit-left"}
                          ELSE @ \ {"active"}]
         /\ timers' = Append(timers, [id |-> timerSeq, slideNumber |-> slideNumber])
         /\ timerSeq' = (timerSeq % MaxPending) + 1
         /\ currentSlide' = slideNumber
         /\ UNCHANGED <<uiVars, thrown>>

\* ---- navigation ----
goToSlide(slideNumber) ==
    IF slideNumber < 1 \/ slideNumber > totalSlides
    THEN UNCHANGED deckVars
    ELSE /\ Len(timers) < MaxPending
         /\ slides' = [slides EXCEPT ![currentSlide] =
                          IF slideNumber > currentSlide
                          THEN (@ \ {"active"}) \cup {"exit-left"}
                          ELSE @ \ {"active"}]
         /\ timers' = Append(timers, [id |-> timerSeq, slideNumber |-> slideNumber])
         /\ timerSeq' = (timerSeq % MaxPending) + 1
         /\ UNCHANGED <<currentSlide, uiVars, thrown>>

\* variant: next wraps around to the first slide at the end of the deck
nextSlide_wrap ==
    IF currentSlide < totalSlides
    THEN goToSlide(currentSlide + 1)
    ELSE goToSlide(1)

\* variant: next counts from the target of the newest pending commit
nextSlide_pendingAware ==
    LET base == IF timers = << >> THEN currentSlide
                ELSE timers[Len(timers)].slideNumber
    IN  IF base < totalSlides
        THEN goToSlide(base + 1)
        ELSE UNCHANGED deckVars

nextSlide ==
    IF currentSlide < totalSlides
    THEN goToSlide(currentSlide + 1)
    ELSE UNCHANGED deckVars

\* variant: previous jumps back to the first slide
previousSlide_toFirst ==
    IF currentSlide > 1
    THEN goToSlide(1)
    ELSE UNCHANGED deckVars

previousSlide ==
    IF currentSlide > 1
    THEN goToSlide(currentSlide - 1)
    ELSE UNCHANGED deckVars

\* variant: a swipe of exactly the threshold counts (>= for >)
handleSwipe_inclusive(startX, endX) ==
    LET difference == startX - endX
    IN  IF Abs(difference) >= swipeThreshold
        THEN IF difference > 0 THEN nextSlide ELSE previousSlide
        ELSE UNCHANGED deckVars

handleSwipe(startX, endX) ==
    LET difference == startX - endX
    IN  IF Abs(difference) > swipeThreshold
        THEN IF difference > 0 THEN nextSlide ELSE previousSlide
        ELSE UNCHANGED deckVars

\* variant: the index is stored zero-based, as the slide's position in this.slides
commit_zeroBased(slideNumber) ==
    /\ slides' = [i \in 1..totalSlides |->
                    IF i = slideNumber
                    THEN (slides[i] \ {"active", "exit-left"}) \cup {"active"}
                    ELSE slides[i] \ {"active", "exit-left"}]
    /\ currentSlide' = slideNumber - 1
    /\ updateUI(slideNumber - 1)
    /\ UNCHANGED trackerVars

\* variant: every slide is reset but the target slide is not activated
commit_noActivate(slideNumber) ==
    /\ slides' = [i \in 1..totalSlides |-> slides[i] \ {"active", "exit-left"}]
    /\ currentSlide' = slideNumber
    /\ updateUI(slideNumber)
    /\ UNCHANGED trackerVars

\* variant: updateUI runs before this.currentSlide is assigned
commit_staleUI(slideNumber) ==
    /\ slides' = [i \in 1..totalSlides |->
                    IF i = slideNumber
                    THEN (slides[i] \ {"active", "exit-left"}) \cup {"active"}
                    ELSE slides[i] \ {"active", "exit-left"}]
    /\ currentSlide' = slideNumber
    /\ updateUI(currentSlide)
    /\ UNCHANGED trackerVars

\* variant: the other slides are not reset, the target is only activated
commit_noReset(slideNumber) ==
    /\ slides' = [i \in 1..totalSlides |->
                    IF i = slideNumber
                    THEN slides[i] \cup {"active"}
                    ELSE slides[i]]
    /\ currentSlide' = slideNumber
    /\ updateUI(slideNumber)
    /\ UNCHANGED trackerVars

\* variant: the reset removes 'active' only and leaves 'exit-left'
commit_keepExit(slideNumber) ==
    /\ slides' = [i \in 1..totalSlides |->
                    IF i = slideNumber
                    THEN (slides[i] \ {"active"}) \cup {"active"}
                    ELSE slides[i] \ {"active"}]
    /\ currentSlide' = slideNumber
    /\ updateUI(slideNumber)
    /\ UNCHANGED trackerVars

\* variant: the commit reports the navigation to analytics.trackSlideChange
commit_tracking(slideNumber) ==
    /\ slides' = [i \in 1..totalSlides |->
                    IF i = slideNumber
                    THEN (slides[i] \ {"active", "exit-left"}) \cup {"active"}
                    ELSE slides[i] \ {"active", "exit-left"}]
    /\ currentSlide' = slideNumber
    /\ updateUI(slideNumber)
    /\ trackSlideChange(slideNumber)

\* the callback goToSlide hands to setTimeout
commit(slideNumber) ==
    /\ slides' = [i \in 1..totalSlides |->
                    IF i = slideNumber
                    THEN (slides[i] \ {"active", "exit-left"}) \cup {"active"}
                    ELSE slides[i] \ {"active", "exit-left"}]
    /\ currentSlide' = slideNumber
    /\ updateUI(slideNumber)
    /\ UNCHANGED trackerVars

\* variant: End jumps to the slide before the last one
onKeyDown_endShort(key) ==
    CASE key \in {"ArrowRight", "PageDown", " "} -> nextSlide
      [] key \in {"ArrowLeft", "PageUp"} -> previousSlide
      [] key = "Home" -> goToSlide(1)
      [] key = "End" -> goToSlide(totalSlides - 1)
      [] OTHER -> UNCHANGED deckVars

\* the keydown listener of the deck
onKeyDown(key) ==
    CASE key \in {"ArrowRight", "PageDown", " "} -> nextSlide
      [] key \in {"ArrowLeft", "PageUp"} -> previousSlide
      [] key = "Home" -> goToSlide(1)
      [] key = "End" -> goToSlide(totalSlides)
      [] OTHER -> UNCHANGED deckVars

getCurrentSlideNumber == currentSlide

\* ---- actions: events and calls ----
ClickPrev ==
    /\ ~prevBtn.disabled
    /\ previousSlide
    /\ lastOp' = Op("clickPrev", "", 0, 0)
    /\ UNCHANGED <<totalSlides, touchStartX, clock, trackerVars>>

ClickNext ==
    /\ ~nextBtn.disabled
    /\ nextSlide
    /\ lastOp' = Op("clickNext", "", 0, 0)
    /\ UNCHANGED <<totalSlides, touchStartX, clock, trackerVars>>

\* the second keydown listener (the help on '?') only calls alert
KeyDown ==
    \E key \in Keys :
        /\ onKeyDown(key)
        /\ lastOp' = Op("keydown", key, 0, 0)
        /\ UNCHANGED <<totalSlides, touchStartX, clock, trackerVars>>

TouchStart ==
    \E x \in ScreenXs :
        /\ touchStartX' = x
        /\ lastOp' = Op("touchstart", "", x, 0)
        /\ UNCHANGED <<totalSlides, deckVars, clock, trackerVars>>

TouchEnd ==
    \E x \in ScreenXs :
        /\ handleSwipe(touchStartX, x)
        /\ lastOp' = Op("touchend", "", touchStartX, x)
        /\ UNCHANGED <<totalSlides, touchStartX, clock, trackerVars>>

\* window.slideDeck is assigned only when the constructor returned
CallNextSlide ==
    /\ ~thrown
    /\ nextSlide
    /\ lastOp' = Op("nextSlide", "", 0, 0)
    /\ UNCHANGED <<totalSlides, touchStartX, clock, trackerVars>>

CallPreviousSlide ==
    /\ ~thrown
    /\ previousSlide
    /\ lastOp' = Op("previousSlide", "", 0, 0)
    /\ UNCHANGED <<totalSlides, touchStartX, clock, trackerVars>>

CallGoToSlide ==
    \E n \in SlideNumbers :
        /\ ~thrown
        /\ goToSlide(n)
        /\ lastOp' = Op("goToSlide", "", n, 0)
        /\ UNCHANGED <<totalSlides, touchStartX, clock, trackerVars>>

FireCommit ==
    /\ timers # << >>
    /\ commit(Head(timers).slideNumber)
    /\ timers' = Tail(timers)
    /\ lastOp' = Op("commit", "", Head(timers).id, Head(timers).slideNumber)
    /\ UNCHANGED <<totalSlides, timerSeq, touchStartX, clock>>

\* ---- actions of the caller of the tracker ----
\* a millisecond passes, up to the limit of the specification
TickUpTo(limit) ==
    /\ clock < limit
    /\ clock' = clock + 1
    /\ lastOp' = Op("tick", "", 0, 0)
    /\ UNCHANGED <<totalSlides, deckVars, touchStartX, trackerVars>>

Tick == TickUpTo(MaxClock)

WiredTick == TickUpTo(MaxWiredClock)

CallTrackSlideChange ==
    \E s \in TrackedSlides :
        /\ trackSlideChange(s)
        /\ lastOp' = Op("trackSlideChange", "", s, 0)
        /\ UNCHANGED <<totalSlides, deckVars, touchStartX, clock>>

CallGetReport ==
    /\ lastOp' = Op("getReport", "", getReport, 0)
    /\ UNCHANGED <<totalSlides, deckVars, touchStartX, clock, trackerVars>>

Next ==
    \/ ClickPrev
    \/ ClickNext
    \/ KeyDown
    \/ TouchStart
    \/ TouchEnd
    \/ CallNextSlide
    \/ CallPreviousSlide
    \/ CallGoToSlide
    \/ FireCommit

Spec == Init /\ [][Next]_vars

\* the event loop runs every timer that is due
LiveSpec == LiveInit /\ [][Next]_vars /\ WF_vars(FireCommit)

\* an external caller of window.slideAnalytics, the deck left alone
TrackerNext ==
    \/ Tick
    \/ CallTrackSlideChange
    \/ CallGetReport

TrackerSpec == TrackerInit /\ [][TrackerNext]_vars

\* the deck together with an external caller of window.slideAnalytics
WiredNext ==
    \/ Next
    \/ WiredTick
    \/ CallTrackSlideChange
    \/ CallGetReport

WiredSpec == WiredInit /\ [][WiredNext]_vars

\* ---- observations used by the properties ----
ActiveSlides == {i \in 1..totalSlides : "active" \in slides[i]}

\* handle of the timer created last
LastHandle == IF timerSeq = 1 THEN MaxPending ELSE timerSeq - 1

PendingHandles == {timers[i].id : i \in 1..Len(timers)}

ExitSlides == {i \in 1..totalSlides : "exit-left" \in slides[i]}

\* a deck at rest on slide k: slide k alone active, nothing exiting, UI of k
AtRestOn(k) ==
    /\ currentSlide = k
    /\ slides = [i \in 1..totalSlides |-> IF i = k THEN {"active"} ELSE {}]
    /\ slideCounter = ToString(k) \o " / " \o ToString(totalSlides)
    /\ progressBar.num * totalSlides = 100 * k * progressBar.den
    /\ prevBtn.disabled = (k = 1)
    /\ nextBtn.disabled = (k = totalSlides)

\* C1: on a deck of at least one slide currentSlide is always within
\* 1..totalSlides, whatever navigation calls, events and commit firings
\* happened, and totalSlides never changes after construction.
C1_IndexInRange ==
    /\ [](totalSlides >= 1 => currentSlide \in 1..totalSlides)
    /\ [][totalSlides' = totalSlides]_vars

\* a commit fired on the last slide while another commit is still pending
C1_Witness ==
    /\ lastOp.op = "commit"
    /\ totalSlides >= 2
    /\ currentSlide = totalSlides
    /\ Len(timers) >= 1

\* C2: every call goToSlide(n) with n in 1..totalSlides is eventually followed
\* by the firing of the commit it scheduled, and right after that commit
\* currentSlide = n and slide n is the one active slide. In steps: the call
\* schedules a timer for n; a pending timer keeps its target until it fires;
\* the firing leaves the deck on the timer's target, that slide alone active;
\* and every pending timer eventually fires.
C2_GoToSlideCommits ==
    /\ [][(lastOp'.op = "goToSlide" /\ lastOp'.a \in 1..totalSlides)
             => /\ Len(timers') = Len(timers) + 1
                /\ timers'[Len(timers')] = [id |-> timerSeq, slideNumber |-> lastOp'.a]]_vars
    /\ [][\A i \in 1..Len(timers) :
             \/ \E j \in 1..Len(timers') : timers'[j] = timers[i]
             \/ lastOp' = Op("commit", "", timers[i].id, timers[i].slideNumber)]_vars
    /\ [][lastOp'.op = "commit"
             => /\ lastOp'.b \in 1..totalSlides
                /\ currentSlide' = lastOp'.b
                /\ ActiveSlides' = {lastOp'.b}]_vars
    /\ \A id \in 1..MaxPending :
          (\E i \in 1..Len(timers) : timers[i].id = id)
              ~> (lastOp.op = "commit" /\ lastOp.a = id)

\* the commit of a jump to the last slide of the largest deck has fired
C2_Witness ==
    /\ lastOp.op = "commit"
    /\ totalSlides = MaxLiveSlides
    /\ lastOp.b = totalSlides
    /\ currentSlide = totalSlides
    /\ ActiveSlides = {totalSlides}

\* C3: goToSlide(n) with n outside 1..totalSlides changes nothing: index,
\* slide flags, counter, progress, buttons, and it schedules no commit.
C3_OutOfRangeIsNoOp ==
    [][(lastOp'.op = "goToSlide" /\ ~(lastOp'.a \in 1..totalSlides))
          => UNCHANGED <<currentSlide, slides, slideCounter, progressBar,
                         prevBtn, nextBtn, timers>>]_vars

\* goToSlide(0) was called in the middle of a transition
C3_Witness ==
    /\ lastOp = Op("goToSlide", "", 0, 0)
    /\ totalSlides >= 2
    /\ Len(timers) = 1
    /\ ActiveSlides = {}

\* C4: nextSlide() on the last slide and previousSlide() on the first slide
\* change nothing and schedule nothing; anywhere else they are
\* goToSlide(currentSlide + 1) and goToSlide(currentSlide - 1).
C4_SaturatingNavigation ==
    [][/\ lastOp'.op = "nextSlide" =>
            IF currentSlide = totalSlides
            THEN UNCHANGED deckVars
            ELSE goToSlide(currentSlide + 1)
       /\ lastOp'.op = "previousSlide" =>
            IF currentSlide = 1
            THEN UNCHANGED deckVars
            ELSE goToSlide(currentSlide - 1)]_vars

\* nextSlide() was called on the last slide with nothing pending
C4_Witness ==
    /\ lastOp.op = "nextSlide"
    /\ totalSlides >= 2
    /\ currentSlide = totalSlides
    /\ timers = << >>

\* C5: on a deck of at least one slide the counter, the progress width and the
\* two buttons always agree with currentSlide; a step that changes
\* currentSlide re-projects them, and the buttons change in commits only.
C5_UIAgreesWithIndex ==
    /\ [](totalSlides >= 1 =>
            /\ slideCounter = ToString(currentSlide) \o " / " \o ToString(totalSlides)
            /\ progressBar.num * totalSlides = 100 * currentSlide * progressBar.den
            /\ prevBtn.disabled = (currentSlide = 1)
            /\ (prevBtn.opacity = "0.3") = (currentSlide = 1)
            /\ nextBtn.disabled = (currentSlide = totalSlides)
            /\ (nextBtn.opacity = "0.3") = (currentSlide = totalSlides))
    /\ [][(prevBtn' # prevBtn \/ nextBtn' # nextBtn \/ currentSlide' # currentSlide)
             => lastOp'.op = "commit"]_vars

\* a commit moved the deck from an inner slide to the last slide
C5_Witness ==
    /\ lastOp.op = "commit"
    /\ totalSlides >= 3
    /\ currentSlide = totalSlides
    /\ nextBtn.disabled
    /\ ~prevBtn.disabled
    /\ progressBar = [num |-> 100, den |-> 1]

\* C6: handleSwipe(startX, endX), called by the touchend listener with the
\* recorded start and the end of the touch: with |startX - endX| <= 50 it
\* changes neither the index nor the slide flags and schedules nothing; a
\* difference above 50 is nextSlide(), a difference below -50 is
\* previousSlide().
C6_SwipeThreshold ==
    [][lastOp'.op = "touchend" =>
          LET d == lastOp'.a - lastOp'.b
          IN  IF d > 50 THEN nextSlide
              ELSE IF d < 0 - 50 THEN previousSlide
              ELSE UNCHANGED <<currentSlide, slides, timers>>]_vars

\* a swipe of exactly -50 ended on a slide that has a previous slide
C6_Witness ==
    /\ lastOp.op = "touchend"
    /\ lastOp.a - lastOp.b = 0 - 50
    /\ currentSlide > 1
    /\ timers = << >>

\* C7: pending commits are never cancelled: the queue of timers changes only
\* by one in-range navigation appending one timer or by its oldest timer
\* firing; every pending timer eventually fires; the commit that empties the
\* queue leaves the deck on the target scheduled last, that slide alone active.
C7_CommitsNeverCancelled ==
    /\ [][\/ timers' = timers
          \/ /\ lastOp'.op # "commit"
             /\ \E n \in 1..totalSlides :
                    timers' = Append(timers, [id |-> timerSeq, slideNumber |-> n])
          \/ /\ lastOp'.op = "commit"
             /\ timers # << >>
             /\ timers' = Tail(timers)
             /\ lastOp'.a = Head(timers).id]_vars
    /\ [][(lastOp'.op = "goToSlide" /\ lastOp'.a \in 1..totalSlides)
             => timers' = Append(timers, [id |-> timerSeq, slideNumber |-> lastOp'.a])]_vars
    /\ [][(lastOp'.op = "commit" /\ Len(timers) = 1)
             => /\ currentSlide' = timers[Len(timers)].slideNumber
                /\ ActiveSlides' = {timers[Len(timers)].slideNumber}]_vars
    /\ \A id \in 1..MaxPending :
          (id \in PendingHandles) ~> (lastOp.op = "commit" /\ lastOp.a = id)

\* a commit has fired while a commit scheduled later, for another slide, is pending
C7_Witness ==
    /\ lastOp.op = "commit"
    /\ Len(timers) >= 1
    /\ currentSlide = lastOp.b
    /\ timers[Len(timers)].slideNumber # currentSlide

\* C8: with zero slides in the document nothing is thrown, by the constructor
\* or by any navigation, and the deck stays as it was built.
C8_ZeroSlidesNothingThrown ==
    totalSlides = 0 => (~thrown /\ timers = << >> /\ currentSlide = 1)

\* C9: right after construction of a deck of N >= 1 slides the index is 1, the
\* counter shows "1 / N", the progress is 100/N percent, the previous button
\* is disabled and the next button is enabled iff N > 1.
C9_FreshDeck ==
    (lastOp.op = "constructor" /\ totalSlides >= 1) =>
        /\ currentSlide = 1
        /\ timers = << >>
        /\ slideCounter = "1 / " \o ToString(totalSlides)
        /\ progressBar.num * totalSlides = 100 * progressBar.den
        /\ prevBtn = [disabled |-> TRUE, opacity |-> "0.3"]
        /\ nextBtn.disabled = ~(totalSlides > 1)

\* a freshly built deck of the largest size
C9_Witness ==
    /\ lastOp.op = "constructor"
    /\ totalSlides = MaxSlides
    /\ ~nextBtn.disabled

\* C10: ArrowRight, PageDown and Space are nextSlide(); ArrowLeft and PageUp
\* are previousSlide(); Home is goToSlide(1); End is goToSlide(totalSlides);
\* any other key changes nothing. End pressed on slide 1 with nothing pending
\* eventually shows the last slide, next disabled, counter "N / N".
C10_KeyMapping ==
    /\ [][lastOp'.op = "keydown" =>
            CASE lastOp'.key \in {"ArrowRight", "PageDown", " "} -> nextSlide
              [] lastOp'.key \in {"ArrowLeft", "PageUp"} -> previousSlide
              [] lastOp'.key = "Home" -> goToSlide(1)
              [] lastOp'.key = "End" -> goToSlide(totalSlides)
              [] OTHER -> UNCHANGED <<currentSlide, slides, timers>>]_vars
    /\ (lastOp = Op("keydown", "End", 0, 0) /\ currentSlide = 1 /\ Len(timers) = 1)
          ~> (/\ currentSlide = totalSlides
              /\ nextBtn.disabled
              /\ slideCounter = ToString(totalSlides) \o " / " \o ToString(totalSlides))

\* End was pressed on slide 1 of the largest deck with nothing pending
C10_Witness ==
    /\ lastOp = Op("keydown", "End", 0, 0)
    /\ totalSlides = MaxLiveSlides
    /\ currentSlide = 1
    /\ timers = <<[id |-> LastHandle, slideNumber |-> totalSlides]>>

\* ---- transitions of the deck ----
\* C13: an in-range goToSlide(n) at once removes 'active' from the current
\* slide and adds 'exit-left' to it iff n > currentSlide; for n <= currentSlide
\* (n = currentSlide included) no slide gains 'exit-left'. The same holds for
\* every step that schedules a commit, whatever its entry point.
C13_ExitCueForwardOnly ==
    /\ [][(lastOp'.op = "goToSlide" /\ lastOp'.a \in 1..totalSlides) =>
            \A i \in 1..totalSlides :
               /\ ("active" \in slides'[i]) = ("active" \in slides[i] /\ i # currentSlide)
               /\ ("exit-left" \in slides'[i])
                     = ("exit-left" \in slides[i] \/ (i = currentSlide /\ lastOp'.a > currentSlide))]_vars
    /\ [][Len(timers') = Len(timers) + 1 =>
            \A i \in 1..totalSlides :
               /\ ("active" \in slides'[i]) = ("active" \in slides[i] /\ i # currentSlide)
               /\ ("exit-left" \in slides'[i])
                     = ("exit-left" \in slides[i]
                        \/ (i = currentSlide
                            /\ timers'[Len(timers')].slideNumber > currentSlide))]_vars

\* goToSlide was called with a slide before the current one: nothing is exiting
C13_Witness ==
    /\ lastOp.op = "goToSlide"
    /\ lastOp.a \in 1..totalSlides
    /\ lastOp.a < currentSlide
    /\ Len(timers) = 1
    /\ ActiveSlides = {}
    /\ ExitSlides = {}

\* C14: an in-range goToSlide(n) changes neither currentSlide nor the counter,
\* the progress or the buttons, and getCurrentSlideNumber() still returns the
\* old index; they change only when a commit fires, and the commit clears
\* 'active' and 'exit-left' from every slide, activates slide n, sets
\* currentSlide = n and re-projects the UI, in one step.
C14_CommitIsDeferred ==
    /\ [][lastOp'.op # "commit" =>
            /\ UNCHANGED <<currentSlide, slideCounter, progressBar, prevBtn, nextBtn>>
            /\ getCurrentSlideNumber' = currentSlide]_vars
    /\ [][(lastOp'.op = "goToSlide" /\ lastOp'.a \in 1..totalSlides) =>
            /\ Len(timers') = Len(timers) + 1
            /\ timers'[Len(timers')].slideNumber = lastOp'.a
            /\ getCurrentSlideNumber' = currentSlide]_vars
    /\ [][lastOp'.op = "commit" =>
            LET n == Head(timers).slideNumber
            IN  /\ \A i \in 1..totalSlides :
                      slides'[i] = (slides[i] \ {"active", "exit-left"})
                                      \cup (IF i = n THEN {"active"} ELSE {})
                /\ currentSlide' = n
                /\ slideCounter' = ToString(n) \o " / " \o ToString(totalSlides)
                /\ progressBar'.num * totalSlides = 100 * n * progressBar'.den
                /\ prevBtn'.disabled = (n = 1)
                /\ nextBtn'.disabled = (n = totalSlides)]_vars

\* between goToSlide(n) and its commit the deck still reports the old index
C14_Witness ==
    /\ lastOp.op = "goToSlide"
    /\ lastOp.a \in 1..totalSlides
    /\ lastOp.a # currentSlide
    /\ Len(timers) = 1
    /\ timers[1].slideNumber = lastOp.a
    /\ getCurrentSlideNumber # lastOp.a
    /\ slideCounter = ToString(currentSlide) \o " / " \o ToString(totalSlides)

\* C15: with slide 1 the only active slide at load, the set of active slides
\* is always empty or exactly the current slide, and it is exactly the current
\* slide whenever no commit is pending.
C15_ActiveIsCurrent ==
    totalSlides >= 1 =>
        /\ ActiveSlides \in {{}, {currentSlide}}
        /\ timers = << >> => ActiveSlides = {currentSlide}

\* a commit fired while a later commit is pending: the new current slide is active
C15_Witness ==
    /\ lastOp.op = "commit"
    /\ Len(timers) >= 1
    /\ currentSlide > 1
    /\ ActiveSlides = {currentSlide}

\* C16: no slide is both 'active' and 'exit-left', at most one slide is
\* 'exit-left', and no slide is 'exit-left' when no commit is pending.
C16_ExitNeverOutlives ==
    /\ \A i \in 1..totalSlides : ~({"active", "exit-left"} \subseteq slides[i])
    /\ Cardinality(ExitSlides) <= 1
    /\ timers = << >> => ExitSlides = {}

\* two commits are pending and the slide being left carries the exit cue
C16_Witness ==
    /\ Len(timers) = 2
    /\ ExitSlides = {currentSlide}
    /\ ActiveSlides = {}

\* C17: nextSlide() computes its target from the uncommitted index: called
\* with currentSlide = k < totalSlides it schedules one more commit for k + 1
\* and leaves currentSlide at k, also when commits are already pending; when
\* all pending commits have one target, each firing leaves the deck on that
\* target, so m calls advance the index by one. The same for previousSlide().
C17_RapidNavigation ==
    /\ [][(lastOp'.op = "nextSlide" /\ currentSlide < totalSlides) =>
            /\ currentSlide' = currentSlide
            /\ timers' = Append(timers, [id |-> timerSeq, slideNumber |-> currentSlide + 1])]_vars
    /\ [][(lastOp'.op = "previousSlide" /\ currentSlide > 1) =>
            /\ currentSlide' = currentSlide
            /\ timers' = Append(timers, [id |-> timerSeq, slideNumber |-> currentSlide - 1])]_vars
    /\ [][(/\ lastOp'.op = "commit"
           /\ \A i \in 1..Len(timers) : timers[i].slideNumber = timers[1].slideNumber)
            => /\ currentSlide' = timers[1].slideNumber
               /\ \A j \in 1..Len(timers') : timers'[j].slideNumber = currentSlide']_vars

\* nextSlide() was called twice in a row before any commit fired
C17_Witness ==
    /\ lastOp.op = "nextSlide"
    /\ Len(timers) = 2
    /\ timers[1].slideNumber = currentSlide + 1
    /\ timers[2].slideNumber = currentSlide + 1

\* C18: round trip: a deck with no commit pending is at rest on its current
\* slide (that slide alone active, nothing exiting, counter, progress and
\* buttons of that slide); from rest on k, nextSlide() and its commit lead to
\* rest on k + 1 and previousSlide() and its commit to rest on k - 1, so
\* next-then-previous and previous-then-next return to the same state.
C18_RoundTrip ==
    /\ []((totalSlides >= 1 /\ timers = << >>) => AtRestOn(currentSlide))
    /\ [][(lastOp'.op = "nextSlide" /\ timers = << >> /\ currentSlide < totalSlides)
             => /\ Len(timers') = 1
                /\ timers'[1].slideNumber = currentSlide + 1]_vars
    /\ [][(lastOp'.op = "previousSlide" /\ timers = << >> /\ currentSlide > 1)
             => /\ Len(timers') = 1
                /\ timers'[1].slideNumber = currentSlide - 1]_vars
    /\ [][(lastOp'.op = "commit" /\ Len(timers) = 1)
             => /\ timers' = << >>
                /\ currentSlide' = timers[1].slideNumber]_vars

\* the deck went to slide 3 and is back at rest on slide 2
C18_Witness ==
    /\ lastOp.op = "commit"
    /\ timers = << >>
    /\ totalSlides = 3
    /\ docTitle = 3
    /\ AtRestOn(2)

\* ---- the tracker ----
RECURSIVE SumOver(_, _)
SumOver(f, S) ==
    IF S = {} THEN 0
    ELSE LET k == CHOOSE x \in S : TRUE IN f[k] + SumOver(f, S \ {k})

\* the sum of all per-slide accumulated times
TotalViewTime == SumOver(slideViewTimes, DOMAIN slideViewTimes)

TrackerOps == {"trackSlideChange", "getReport"}

\* C11: the tracker and the controller are decoupled: no controller operation
\* and no commit changes the tracker's times or timestamps (the per-slide
\* mapping changes in trackSlideChange only), and neither trackSlideChange nor
\* getReport changes currentSlide, the slide flags, the UI or the timers.
C11_TrackerDecoupled ==
    /\ [][lastOp'.op \notin (TrackerOps \cup {"tick"})
             => UNCHANGED <<startTime, currentSlideStartTime, slideViewTimes>>]_vars
    /\ [][slideViewTimes' # slideViewTimes => lastOp'.op = "trackSlideChange"]_vars
    /\ [][lastOp'.op \in TrackerOps
             => UNCHANGED <<currentSlide, slides, slideCounter, progressBar,
                            prevBtn, nextBtn, docTitle, timers>>]_vars

\* a commit fired on a deck whose tracker has recorded time for slide 1
C11_Witness ==
    /\ lastOp.op = "commit"
    /\ currentSlide = lastOp.b
    /\ ViewTime(1) > 0
    /\ currentSlideStartTime > firstSlideStartTime

\* C12: with a clock that never goes back, trackSlideChange(s) adds
\* now - currentSlideStartTime to the time of index s (0 for an unseen index),
\* leaves every other index as it was and sets currentSlideStartTime to now;
\* so no per-slide time ever decreases; getReport() changes nothing.
C12_TrackAccumulates ==
    /\ [][lastOp'.op = "trackSlideChange" =>
            /\ DOMAIN slideViewTimes' = DOMAIN slideViewTimes \cup {lastOp'.a}
            /\ slideViewTimes'[lastOp'.a]
                  = ViewTime(lastOp'.a) + (clock - currentSlideStartTime)
            /\ \A k \in DOMAIN slideViewTimes \ {lastOp'.a} :
                  slideViewTimes'[k] = slideViewTimes[k]
            /\ currentSlideStartTime' = clock]_vars
    /\ [][\A k \in DOMAIN slideViewTimes :
            /\ k \in DOMAIN slideViewTimes'
            /\ slideViewTimes'[k] >= slideViewTimes[k]]_vars
    /\ [][lastOp'.op = "getReport" => UNCHANGED <<clock, trackerVars>>]_vars

\* time was recorded for slide 1, then for slide 2, slide 1 keeping its own
C12_Witness ==
    /\ lastOp = Op("trackSlideChange", "", 2, 0)
    /\ DOMAIN slideViewTimes = {1, 2}
    /\ slideViewTimes[1] = 1
    /\ slideViewTimes[2] = 1

\* C19: with a clock that never goes back, the per-slide times always add up
\* to currentSlideStartTime minus its value at construction, and the sum never
\* exceeds the totalTime getReport() returns.
C19_TimesAddUp ==
    /\ TotalViewTime = currentSlideStartTime - firstSlideStartTime
    /\ TotalViewTime <= getReport
    /\ lastOp.op = "getReport" => TotalViewTime <= lastOp.a

\* getReport() returned a totalTime above the recorded sum
C19_Witness ==
    /\ lastOp.op = "getReport"
    /\ firstSlideStartTime = 1
    /\ TotalViewTime = 1
    /\ lastOp.a = 2

====
